---------------------------- MODULE Spec2Model ----------------------------
(***************************************************************************)
(* A model of the JvavSprict interpreter (src/sources/jvs.py).             *)
(*                                                                         *)
(* Text is modelled at character level: a string is a sequence of          *)
(* one-character strings, so that the prefix tests, the regular            *)
(* expressions, str.split, str.strip and the textual substitution done by  *)
(* evaluate_expression are computed the way the interpreter computes them. *)
(* The interpreter is sequential and recursive (process_lines ->           *)
(* handle_function_call -> call_function -> process_lines); the recursion  *)
(* is modelled by an explicit stack of process_lines activations.          *)
(***************************************************************************)
EXTENDS Integers, Sequences, FiniteSets, TLC

\* The deepest nesting of process_lines activations the model follows.
MaxDepth == 4

\* The longest function body the generated programs have.
MaxBody == 2

(***************************************************************************)
(* Characters and elementary string operations.                            *)
(***************************************************************************)
Digits == <<"0", "1", "2", "3", "4", "5", "6", "7", "8", "9">>

DigitSet == {Digits[k] : k \in 1..Len(Digits)}

Letters == {"a", "b", "c", "e", "f", "g", "h", "i", "l", "m", "n", "o",
            "p", "r", "s", "u", "v", "x", "y", "z", "N", "_"}

\* \w of the re module, over the characters the programs use.
IsWord(c) == c \in Letters \cup DigitSet

\* \s of the re module and the characters str.strip() removes.
IsSpace(c) == c = " "

SetMax(S) == CHOOSE m \in S : \A k \in S : k <= m

SetMin(S) == CHOOSE m \in S : \A k \in S : m <= k

\* str.startswith
StartsWith(s, p) == Len(s) >= Len(p) /\ SubSeq(s, 1, Len(p)) = p

\* c in s, for a one-character c
Contains(s, c) == \E k \in 1..Len(s) : s[k] = c

\* str.strip(): leading and trailing white space removed.
Strip(s) ==
    LET keep == {k \in 1..Len(s) : ~IsSpace(s[k])}
    IN  IF keep = {} THEN <<>> ELSE SubSeq(s, SetMin(keep), SetMax(keep))

\* str.strip(q) for a one-character q: every leading and trailing q removed.
StripChar(s, q) ==
    LET keep == {k \in 1..Len(s) : s[k] # q}
    IN  IF keep = {} THEN <<>> ELSE SubSeq(s, SetMin(keep), SetMax(keep))

\* The last position of the longest run of \w characters that starts at
\* position k (k - 1 when s[k] is no \w character): a greedy \w* at k.
WordEnd(s, k) ==
    LET js == {j \in k..Len(s) : \A m \in k..j : IsWord(s[m])}
    IN  IF js = {} THEN k - 1 ELSE SetMax(js)

\* The same for \s*.
SpaceEnd(s, k) ==
    LET js == {j \in k..Len(s) : \A m \in k..j : IsSpace(s[m])}
    IN  IF js = {} THEN k - 1 ELSE SetMax(js)

\* str.split(","): the pieces between the commas, empty pieces included.
RECURSIVE SplitComma(_)
SplitComma(s) ==
    LET cs == {k \in 1..Len(s) : s[k] = ","}
    IN  IF cs = {} THEN <<s>>
        ELSE <<SubSeq(s, 1, SetMin(cs) - 1)>>
                 \o SplitComma(SubSeq(s, SetMin(cs) + 1, Len(s)))

\* [x.strip() for x in text.split(",") if x.strip()]
RECURSIVE StripNonEmpty(_)
StripNonEmpty(parts) ==
    IF parts = <<>> THEN <<>>
    ELSE IF Strip(Head(parts)) = <<>> THEN StripNonEmpty(Tail(parts))
         ELSE <<Strip(Head(parts))>> \o StripNonEmpty(Tail(parts))

SplitArgs(text) == StripNonEmpty(SplitComma(text))

\* str.replace(old, new) for a non-empty old: the non-overlapping occurrences
\* of old, found from left to right, are replaced.
RECURSIVE Replace(_, _, _)
Replace(s, old, new) ==
    IF Len(s) < Len(old) THEN s
    ELSE IF StartsWith(s, old)
         THEN new \o Replace(SubSeq(s, Len(old) + 1, Len(s)), old, new)
         ELSE <<Head(s)>> \o Replace(Tail(s), old, new)

(***************************************************************************)
(* The regular expressions of the handlers.  Each matcher returns the      *)
(* record [ok, name, rest]: whether re.match succeeds, group 1 and group 2.*)
(* The character classes \s, \w and the literal characters that follow     *)
(* them are pairwise disjoint, so the greedy runs below are the only way   *)
(* each pattern can match.                                                 *)
(***************************************************************************)
NoMatch == [ok |-> FALSE, name |-> <<>>, rest |-> <<>>]

kwVar == <<"v", "a", "r">>

kwFunc == <<"f", "u", "n", "c">>

kwLog == <<"l", "o", "g", "(">>

kwComment == <<"/", "/">>

kwMain == <<"m", "a", "i", "n">>

\* The line context execute passes to print_exception_trace
ExecuteContext == <<"Exceptions to code execution">>

\* r"var\s+(\w+)\s*=\s*(.*)"
MatchVar(line) ==
    IF ~StartsWith(line, kwVar) THEN NoMatch
    ELSE LET s1 == SpaceEnd(line, Len(kwVar) + 1)
             w  == WordEnd(line, s1 + 1)
             s2 == SpaceEnd(line, w + 1)
             s3 == SpaceEnd(line, s2 + 2)
         IN  IF /\ s1 >= Len(kwVar) + 1
                /\ w >= s1 + 1
                /\ s2 + 1 <= Len(line)
                /\ line[s2 + 1] = "="
             THEN [ok |-> TRUE, name |-> SubSeq(line, s1 + 1, w),
                   rest |-> SubSeq(line, s3 + 1, Len(line))]
             ELSE NoMatch

\* r"func\s+(\w+)\((.*?)\)\s*\{": the lazy group ends at the first ")" that
\* is followed by optional white space and "{".
MatchFunc(line) ==
    IF ~StartsWith(line, kwFunc) THEN NoMatch
    ELSE LET s1 == SpaceEnd(line, Len(kwFunc) + 1)
             w  == WordEnd(line, s1 + 1)
             cs == {c \in (w + 2)..Len(line) :
                       /\ line[c] = ")"
                       /\ SpaceEnd(line, c + 1) + 1 <= Len(line)
                       /\ line[SpaceEnd(line, c + 1) + 1] = "{"}
         IN  IF /\ s1 >= Len(kwFunc) + 1
                /\ w >= s1 + 1
                /\ w + 1 <= Len(line)
                /\ line[w + 1] = "("
                /\ cs # {}
             THEN [ok |-> TRUE, name |-> SubSeq(line, s1 + 1, w),
                   rest |-> SubSeq(line, w + 2, SetMin(cs) - 1)]
             ELSE NoMatch

\* r"log\((.+)\)": the greedy group ends at the last ")" and is not empty.
MatchLog(line) ==
    IF ~StartsWith(line, kwLog) THEN NoMatch
    ELSE LET cs == {c \in (Len(kwLog) + 2)..Len(line) : line[c] = ")"}
         IN  IF cs = {} THEN NoMatch
             ELSE [ok |-> TRUE, name |-> <<>>,
                   rest |-> SubSeq(line, Len(kwLog) + 1, SetMax(cs) - 1)]

\* r"(\w+)\((.*)\)": the greedy group ends at the last ")".
MatchCall(line) ==
    LET w  == WordEnd(line, 1)
        cs == {c \in (w + 2)..Len(line) : line[c] = ")"}
    IN  IF w >= 1 /\ w + 1 <= Len(line) /\ line[w + 1] = "(" /\ cs # {}
        THEN [ok |-> TRUE, name |-> SubSeq(line, 1, w),
              rest |-> SubSeq(line, w + 2, SetMax(cs) - 1)]
        ELSE NoMatch

\* re.match(r".*\(.*\)", line)
IsCallPattern(line) ==
    \E j \in 1..Len(line), k \in 1..Len(line) :
        j < k /\ line[j] = "(" /\ line[k] = ")"

(***************************************************************************)
(* Values: what eval yields for the expressions of the model (integers,    *)
(* strings and None), and str() of a value.                                *)
(***************************************************************************)
IntVal(n) == [t |-> "int", n |-> n, s |-> <<>>]

StrVal(s) == [t |-> "str", n |-> 0, s |-> s]

NoneVal == [t |-> "none", n |-> 0, s |-> <<>>]

RECURSIVE DecStr(_)
DecStr(n) ==
    IF n < 10 THEN <<Digits[n + 1]>>
    ELSE DecStr(n \div 10) \o <<Digits[(n % 10) + 1]>>

\* str(val)
Str(v) ==
    CASE v.t = "int" -> DecStr(v.n)
      [] v.t = "str" -> v.s
      [] OTHER -> <<"N", "o", "n", "e">>

(***************************************************************************)
(* eval(), for the expression language the model's programs stay in: sums  *)
(* of decimal integers, quoted strings and names, with unary plus.  A name *)
(* other than None is unbound in the evaluator's environment (the model's  *)
(* programs use no identifier that Python binds there).                    *)
(*                                                                         *)
(* A token is [k, n, s] with k one of "num", "str", "name", "plus", "bad". *)
(***************************************************************************)
Tok(k, n, s) == [k |-> k, n |-> n, s |-> s]

RECURSIVE DecVal(_)
DecVal(ds) ==
    IF ds = <<>> THEN 0
    ELSE 10 * DecVal(SubSeq(ds, 1, Len(ds) - 1))
           + (CHOOSE d \in 0..9 : Digits[d + 1] = ds[Len(ds)])

\* A decimal literal: no letter may follow the digits, and a literal of two
\* or more digits that starts with 0 is all zeros.
NumToken(s) ==
    LET js == {j \in 1..Len(s) : \A m \in 1..j : s[m] \in DigitSet}
        e  == SetMax(js)
        ds == SubSeq(s, 1, e)
    IN  IF \/ WordEnd(s, 1) > e
           \/ (e > 1 /\ ds[1] = "0" /\ \E m \in 1..e : ds[m] # "0")
        THEN [tok |-> Tok("bad", 0, <<>>), len |-> Len(s)]
        ELSE [tok |-> Tok("num", DecVal(ds), <<>>), len |-> e]

\* A string literal in either kind of quote (no escapes in the model).
StrToken(s) ==
    LET cs == {c \in 2..Len(s) : s[c] = s[1]}
    IN  IF cs = {} THEN [tok |-> Tok("bad", 0, <<>>), len |-> Len(s)]
        ELSE [tok |-> Tok("str", 0, SubSeq(s, 2, SetMin(cs) - 1)),
              len |-> SetMin(cs)]

FirstToken(s) ==
    CASE s[1] \in DigitSet -> NumToken(s)
      [] s[1] \in {"\"", "'"} -> StrToken(s)
      [] s[1] \in Letters ->
             [tok |-> Tok("name", 0, SubSeq(s, 1, WordEnd(s, 1))),
              len |-> WordEnd(s, 1)]
      [] s[1] = "+" -> [tok |-> Tok("plus", 0, <<>>), len |-> 1]
      [] OTHER -> [tok |-> Tok("bad", 0, <<>>), len |-> Len(s)]

RECURSIVE Tokens(_)
Tokens(s) ==
    IF s = <<>> THEN <<>>
    ELSE IF IsSpace(s[1]) THEN Tokens(Tail(s))
         ELSE LET f == FirstToken(s)
              IN  <<f.tok>> \o Tokens(SubSeq(s, f.len + 1, Len(s)))

IsAtom(tok) == tok.k \in {"num", "str", "name"}

\* What the compiler accepts: at least one token, no bad token, an operand
\* last, and no operand right after an operand except a string after a
\* string (adjacent string literals are concatenated).
SyntaxOK(toks) ==
    /\ toks # <<>>
    /\ \A k \in 1..Len(toks) : toks[k].k # "bad"
    /\ IsAtom(toks[Len(toks)])
    /\ \A k \in 1..(Len(toks) - 1) :
          (IsAtom(toks[k]) /\ IsAtom(toks[k + 1]))
              => (toks[k].k = "str" /\ toks[k + 1].k = "str")

EvalOk(v) == [ok |-> TRUE, val |-> v, err |-> "none"]

EvalErr(kind) == [ok |-> FALSE, val |-> NoneVal, err |-> kind]

\* Evaluation from left to right.  acc is the value so far (has: whether
\* there is one), want: an operand is expected, unary: a unary plus is
\* pending on it.
RECURSIVE Run(_, _, _, _, _)
Run(toks, acc, has, want, unary) ==
    IF toks = <<>> THEN EvalOk(acc)
    ELSE LET tok == Head(toks)
             v   == CASE tok.k = "num" -> IntVal(tok.n)
                      [] tok.k = "str" -> StrVal(tok.s)
                      [] OTHER -> NoneVal
         IN  IF tok.k = "plus"
             THEN Run(Tail(toks), acc, has, TRUE, want)
             ELSE IF tok.k = "name" /\ tok.s # <<"N", "o", "n", "e">>
             THEN EvalErr("NameError")
             ELSE IF ~want
             THEN Run(Tail(toks), StrVal(acc.s \o v.s), TRUE, FALSE, FALSE)
             ELSE IF unary /\ v.t # "int"
             THEN EvalErr("TypeError")
             ELSE IF ~has
             THEN Run(Tail(toks), v, TRUE, FALSE, FALSE)
             ELSE IF acc.t = "int" /\ v.t = "int"
             THEN Run(Tail(toks), IntVal(acc.n + v.n), TRUE, FALSE, FALSE)
             ELSE IF acc.t = "str" /\ v.t = "str"
             THEN Run(Tail(toks), StrVal(acc.s \o v.s), TRUE, FALSE, FALSE)
             ELSE EvalErr("TypeError")

\* eval(text): [ok, val, err]
PyEval(text) ==
    LET toks == Tokens(text)
    IN  IF SyntaxOK(toks) THEN Run(toks, NoneVal, FALSE, TRUE, FALSE)
        ELSE EvalErr("SyntaxError")

(***************************************************************************)
(* The variable scope: self.variables, a dict.  Its iteration order is the *)
(* insertion order and evaluate_expression depends on it, so the scope is  *)
(* the sequence of its [name, val] items in that order.                    *)
(***************************************************************************)
HasVar(scope, name) == \E k \in 1..Len(scope) : scope[k].name = name

GetVar(scope, name) ==
    scope[CHOOSE k \in 1..Len(scope) : scope[k].name = name].val

\* SetVar that adds an item even when the key is there.
SetVarAppend(scope, name, val) ==
    Append(scope, [name |-> name, val |-> val])

\* self.variables[name] = val: an existing key keeps its place.
SetVar(scope, name, val) ==
    IF HasVar(scope, name)
    THEN [k \in 1..Len(scope) |->
             IF scope[k].name = name THEN [name |-> name, val |-> val]
             ELSE scope[k]]
    ELSE Append(scope, [name |-> name, val |-> val])

\* One diagnostic printed by print_exception_trace(line_number, line, e):
\* ln is the line_number argument, text the line argument, kind the type of
\* the exception; by names the caller and level the depth of the activation
\* that was running.
Diag(ln, text, kind, by, level) ==
    [ln |-> ln, text |-> text, kind |-> kind, by |-> by, level |-> level]

\* Substitute without its loop: the expression is evaluated as written.
SubstituteNothing(expr, scope) == expr

\* The for loop of evaluate_expression: every variable's name is replaced by
\* str of its value, one variable after the other, in the scope's order.
RECURSIVE Substitute(_, _)
Substitute(expr, scope) ==
    IF scope = <<>> THEN expr
    ELSE Substitute(Replace(expr, Head(scope).name, Str(Head(scope).val)),
                    Tail(scope))

\* evaluate_expression(expr): the value, and the diagnostics it prints.  A
\* failed eval is reported and None is returned.
EvaluateExpression(expr, scope, level) ==
    LET text == Substitute(expr, scope)
        r    == PyEval(text)
    IN  IF r.ok THEN [val |-> r.val, diags |-> <<>>]
        ELSE [val |-> NoneVal,
              diags |-> <<Diag(-1, text, r.err, "evaluator", level)>>]

\* The loop of call_function that binds the parameters: each argument is
\* evaluated in, and its parameter stored into, the live scope.
RECURSIVE BindArgs(_, _, _, _)
BindArgs(params, args, scope, level) ==
    IF params = <<>> \/ args = <<>> THEN [scope |-> scope, diags |-> <<>>]
    ELSE LET ev   == EvaluateExpression(Head(args), scope, level)
             next == BindArgs(Tail(params), Tail(args),
                              SetVar(scope, Head(params), ev.val), level)
         IN  [scope |-> next.scope, diags |-> ev.diags \o next.diags]

\* ScanBody with "elif" for the second test: a line holding both braces only
\* counts as an opening one.
RECURSIVE ScanBodyElif(_, _, _, _)
ScanBodyElif(lines, i, count, body) ==
    IF i >= Len(lines) THEN [i |-> i, body |-> body]
    ELSE LET line == Strip(lines[i + 1])
             c2   == IF Contains(line, "{") THEN count + 1
                     ELSE IF Contains(line, "}") THEN count - 1 ELSE count
         IN  IF ~Contains(line, "{") /\ Contains(line, "}") /\ c2 = 0
             THEN [i |-> i, body |-> body]
             ELSE ScanBodyElif(lines, i + 1, c2, Append(body, line))

\* The while loop of handle_function_definition, from index i (0-based) with
\* brace_count = count: the index it stops at and the body it collected.
RECURSIVE ScanBody(_, _, _, _)
ScanBody(lines, i, count, body) ==
    IF i >= Len(lines) THEN [i |-> i, body |-> body]
    ELSE LET line == Strip(lines[i + 1])
             c1   == IF Contains(line, "{") THEN count + 1 ELSE count
             c2   == IF Contains(line, "}") THEN c1 - 1 ELSE c1
         IN  IF Contains(line, "}") /\ c2 = 0 THEN [i |-> i, body |-> body]
             ELSE ScanBody(lines, i + 1, c2, Append(body, line))

(***************************************************************************)
(* The state of one run of execute(code).                                  *)
(*                                                                         *)
(*   code       the lines of the program, code.split("\n")                 *)
(*   pc         where execute is: "scan" (in process_lines(lines)),        *)
(*              "main" (in call_function("main", [])) or "done"            *)
(*   stack      the activations of process_lines, the running one last     *)
(*   variables  self.variables                                             *)
(*   functions  self.functions: name -> [params, body]                     *)
(*   out        what handle_log and execute print, in order                *)
(*   diag       what print_exception_trace prints, in order                *)
(*   mainCalls  how many times execute has called call_function("main")    *)
(*   prev       the step that led to this state: its name (op) and the     *)
(*              interpreter's state before it                              *)
(*                                                                         *)
(* An activation of process_lines is a record:                             *)
(*   lines, i   its arguments and its loop index (0-based, as in the code) *)
(*   broke      the loop was left by the break of the except clause        *)
(*   backup     backup_vars of the call_function that started it           *)
(*   fname, params, args   that call's function and arguments              *)
(*   entry      self.variables as call_function found them                 *)
(*   base       the index in code of lines[0] (body lines are a contiguous *)
(*              run of the lines the definition was read from)             *)
(*   reports    how many diagnostics this activation's except clause made  *)
(*   faultAt    the index of the line of its first one (-1: none)          *)
(*   calleeFault  a call made by one of its lines returned after a fault   *)
(*              in the called body                                         *)
(***************************************************************************)
VARIABLES code, pc, stack, variables, functions, out, diag, mainCalls, prev

vars == <<code, pc, stack, variables, functions, out, diag, mainCalls, prev>>

Activation(lines, backup, fname, params, args, entry, base) ==
    [lines |-> lines, i |-> 0, broke |-> FALSE, backup |-> backup,
     fname |-> fname, params |-> params, args |-> args, entry |-> entry,
     base |-> base, reports |-> 0, faultAt |-> -1, calleeFault |-> FALSE]

Top == stack[Len(stack)]

Depth == Len(stack)

\* The condition of the while loop of process_lines, for the running
\* activation.
Looping == pc \in {"scan", "main"} /\ ~Top.broke /\ Top.i < Len(Top.lines)

\* line = lines[i].strip()
CurLine == Strip(Top.lines[Top.i + 1])

Snapshot(op) ==
    [op |-> op, pc |-> pc, stack |-> stack, variables |-> variables,
     functions |-> functions, out |-> out, diag |-> diag]

SetTop(frame) == [stack EXCEPT ![Len(stack)] = frame]

\* The loop body without its i += 1.
AdvanceStuck(frame) == frame

\* i += 1 at the end of the loop body
Advance(frame) == [frame EXCEPT !.i = @ + 1]

\* The except clause without its break: the loop goes on with the next line.
BreakMissing(frame) ==
    [frame EXCEPT !.i = @ + 1,
                  !.reports = @ + 1,
                  !.faultAt = IF @ = -1 THEN frame.i ELSE @]

\* The except clause of process_lines: the diagnostic is printed by the
\* action; break leaves the loop with i at the faulting line.
Break(frame) ==
    [frame EXCEPT !.broke = TRUE,
                  !.reports = @ + 1,
                  !.faultAt = IF @ = -1 THEN frame.i ELSE @]

\* The diagnostic of the except clause of process_lines
DispatcherDiag(kind) == Diag(Top.i, CurLine, kind, "dispatcher", Depth)

\* The classification of process_lines, in the order of its tests.
IsSkip(line) == line = <<>> \/ StartsWith(line, kwComment)

IsVar(line) == ~IsSkip(line) /\ StartsWith(line, kwVar \o <<" ">>)

IsFunc(line) ==
    ~IsSkip(line) /\ ~IsVar(line) /\ StartsWith(line, kwFunc \o <<" ">>)

\* The test for log( made after the lookup of a registered function: a line
\* that calls a registered function named log is a call.
IsLogUnlessRegistered(line) ==
    /\ ~IsSkip(line) /\ ~IsVar(line) /\ ~IsFunc(line)
    /\ StartsWith(line, kwLog)
    /\ ~(IsCallPattern(line) /\ <<"l", "o", "g">> \in DOMAIN functions)

IsLog(line) ==
    ~IsSkip(line) /\ ~IsVar(line) /\ ~IsFunc(line) /\ StartsWith(line, kwLog)

IsCall(line) ==
    /\ ~IsSkip(line) /\ ~IsVar(line) /\ ~IsFunc(line) /\ ~IsLog(line)
    /\ IsCallPattern(line)

IsUnknown(line) ==
    /\ ~IsSkip(line) /\ ~IsVar(line) /\ ~IsFunc(line) /\ ~IsLog(line)
    /\ ~IsCallPattern(line)

(***************************************************************************)
(* The statement handlers: one action for each way a line of the running   *)
(* activation can be processed by one iteration of process_lines.          *)
(***************************************************************************)
\* Blank line or comment: i += 1; continue
SkipLine ==
    /\ Looping /\ IsSkip(CurLine)
    /\ stack' = SetTop(Advance(Top))
    /\ prev' = Snapshot("skip")
    /\ UNCHANGED <<code, pc, variables, functions, out, diag, mainCalls>>

\* handle_variable_declaration, the pattern matches: the expression is
\* evaluated (a failed evaluation is reported and yields None) and stored.
VarDeclaration ==
    /\ Looping /\ IsVar(CurLine) /\ MatchVar(CurLine).ok
    /\ LET m  == MatchVar(CurLine)
           ev == EvaluateExpression(m.rest, variables, Depth)
       IN  /\ variables' = SetVar(variables, m.name, ev.val)
           /\ diag' = diag \o ev.diags
    /\ stack' = SetTop(Advance(Top))
    /\ prev' = Snapshot("var")
    /\ UNCHANGED <<code, pc, functions, out, mainCalls>>

\* handle_variable_declaration, no match: SyntaxError, reported by the
\* handler, raised again and reported by process_lines, which breaks.
VarDeclarationFault ==
    /\ Looping /\ IsVar(CurLine) /\ ~MatchVar(CurLine).ok
    /\ diag' = diag \o <<Diag(-1, CurLine, "SyntaxError", "declaration", Depth),
                         DispatcherDiag("SyntaxError")>>
    /\ stack' = SetTop(Break(Top))
    /\ prev' = Snapshot("fault")
    /\ UNCHANGED <<code, pc, variables, functions, out, mainCalls>>

\* handle_function_definition storing into a new table: the functions
\* registered before are dropped.
FunctionDefinitionFreshTable ==
    /\ Looping /\ IsFunc(CurLine) /\ MatchFunc(CurLine).ok
    /\ LET m    == MatchFunc(CurLine)
           scan == ScanBody(Top.lines, Top.i + 1, 1, <<>>)
       IN  /\ functions' =
                  (m.name :> [params |-> SplitArgs(m.rest),
                              body |-> scan.body,
                              at |-> Top.base + Top.i + 1])
           /\ stack' = SetTop(Advance([Top EXCEPT !.i = scan.i]))
    /\ prev' = Snapshot("func")
    /\ UNCHANGED <<code, pc, variables, out, diag, mainCalls>>

\* handle_function_definition, the header matches: the body is collected,
\* the function registered, and the loop goes on after the returned index.
FunctionDefinition ==
    /\ Looping /\ IsFunc(CurLine) /\ MatchFunc(CurLine).ok
    /\ LET m    == MatchFunc(CurLine)
           scan == ScanBody(Top.lines, Top.i + 1, 1, <<>>)
       IN  /\ functions' =
                  (m.name :> [params |-> SplitArgs(m.rest),
                              body |-> scan.body,
                              at |-> Top.base + Top.i + 1]) @@ functions
           /\ stack' = SetTop(Advance([Top EXCEPT !.i = scan.i]))
    /\ prev' = Snapshot("func")
    /\ UNCHANGED <<code, pc, variables, out, diag, mainCalls>>

\* handle_function_definition, no match: SyntaxError
FunctionDefinitionFault ==
    /\ Looping /\ IsFunc(CurLine) /\ ~MatchFunc(CurLine).ok
    /\ diag' = Append(diag, DispatcherDiag("SyntaxError"))
    /\ stack' = SetTop(Break(Top))
    /\ prev' = Snapshot("fault")
    /\ UNCHANGED <<code, pc, variables, functions, out, mainCalls>>

\* What handle_log prints for a matched content
LogText(content, scope) ==
    IF HasVar(scope, content) THEN Str(GetVar(scope, content))
    ELSE StripChar(StripChar(content, "\""), "'")

\* handle_log, the pattern matches
Log ==
    /\ Looping /\ IsLog(CurLine) /\ MatchLog(CurLine).ok
    /\ out' = Append(out, [kind |-> "log",
                           text |-> LogText(Strip(MatchLog(CurLine).rest),
                                            variables)])
    /\ stack' = SetTop(Advance(Top))
    /\ prev' = Snapshot("log")
    /\ UNCHANGED <<code, pc, variables, functions, diag, mainCalls>>

\* handle_log raising on a mismatch, as the other handlers do.
LogMalformedRaises ==
    /\ Looping /\ IsLog(CurLine) /\ ~MatchLog(CurLine).ok
    /\ diag' = Append(diag, DispatcherDiag("SyntaxError"))
    /\ stack' = SetTop(Break(Top))
    /\ prev' = Snapshot("fault")
    /\ UNCHANGED <<code, pc, variables, functions, out, mainCalls>>

\* handle_log, no match: the message is printed and nothing is raised
LogMalformed ==
    /\ Looping /\ IsLog(CurLine) /\ ~MatchLog(CurLine).ok
    /\ out' = Append(out, [kind |-> "grammar", text |-> CurLine])
    /\ stack' = SetTop(Advance(Top))
    /\ prev' = Snapshot("logbad")
    /\ UNCHANGED <<code, pc, variables, functions, diag, mainCalls>>

\* handle_function_call, no match: SyntaxError
CallSyntaxFault ==
    /\ Looping /\ IsCall(CurLine) /\ ~MatchCall(CurLine).ok
    /\ diag' = Append(diag, DispatcherDiag("SyntaxError"))
    /\ stack' = SetTop(Break(Top))
    /\ prev' = Snapshot("fault")
    /\ UNCHANGED <<code, pc, variables, functions, out, mainCalls>>

\* handle_function_call with the except clause of the declaration handler:
\* the failed lookup is reported by the handler and again by process_lines.
CallUnknownReportedTwice ==
    /\ Looping /\ IsCall(CurLine) /\ MatchCall(CurLine).ok
    /\ MatchCall(CurLine).name \notin DOMAIN functions
    /\ diag' = diag \o <<Diag(-1, CurLine, "NameError", "declaration", Depth),
                         DispatcherDiag("NameError")>>
    /\ stack' = SetTop(Break(Top))
    /\ prev' = Snapshot("fault")
    /\ UNCHANGED <<code, pc, variables, functions, out, mainCalls>>

\* handle_function_call, the function is not registered: NameError
CallUnknown ==
    /\ Looping /\ IsCall(CurLine) /\ MatchCall(CurLine).ok
    /\ MatchCall(CurLine).name \notin DOMAIN functions
    /\ diag' = Append(diag, DispatcherDiag("NameError"))
    /\ stack' = SetTop(Break(Top))
    /\ prev' = Snapshot("fault")
    /\ UNCHANGED <<code, pc, variables, functions, out, mainCalls>>

\* The arity test with > for !=: too few arguments pass.
ArityTooManyOnly(fname, args) == Len(args) > Len(functions[fname].params)

\* The arity test of call_function
ArityMismatch(fname, args) == Len(args) # Len(functions[fname].params)

\* backup_vars = self.variables.copy()
BackupVars(scope) == scope

\* The parameters bound in a new, empty scope.
CallBindingFresh(fname, args) ==
    BindArgs(functions[fname].params, args, <<>>, Depth)

\* The activation call_function starts for the body, and the scope it runs
\* in: the parameters are bound in the live scope.
CallBinding(fname, args) ==
    BindArgs(functions[fname].params, args, variables, Depth)

CallActivation(fname, args) ==
    Activation(functions[fname].body, BackupVars(variables), fname,
               functions[fname].params, args, variables, functions[fname].at)

\* call_function from handle_function_call, wrong number of arguments:
\* ValueError, raised before anything else is done
CallArityFault ==
    /\ Looping /\ IsCall(CurLine) /\ MatchCall(CurLine).ok
    /\ MatchCall(CurLine).name \in DOMAIN functions
    /\ ArityMismatch(MatchCall(CurLine).name, SplitArgs(MatchCall(CurLine).rest))
    /\ diag' = Append(diag, DispatcherDiag("ValueError"))
    /\ stack' = SetTop(Break(Top))
    /\ prev' = Snapshot("arity")
    /\ UNCHANGED <<code, pc, variables, functions, out, mainCalls>>

\* call_function from handle_function_call, up to the call of process_lines
\* for the body
CallEnter ==
    /\ Looping /\ IsCall(CurLine) /\ MatchCall(CurLine).ok
    /\ Depth < MaxDepth
    /\ LET fname == MatchCall(CurLine).name
           args  == SplitArgs(MatchCall(CurLine).rest)
       IN  /\ fname \in DOMAIN functions
           /\ ~ArityMismatch(fname, args)
           /\ variables' = CallBinding(fname, args).scope
           /\ diag' = diag \o CallBinding(fname, args).diags
           /\ stack' = Append(stack, CallActivation(fname, args))
    /\ prev' = Snapshot("call")
    /\ UNCHANGED <<code, pc, functions, out, mainCalls>>

\* The else branch of process_lines: SyntaxError
UnknownStatement ==
    /\ Looping /\ IsUnknown(CurLine)
    /\ diag' = Append(diag, DispatcherDiag("SyntaxError"))
    /\ stack' = SetTop(Break(Top))
    /\ prev' = Snapshot("fault")
    /\ UNCHANGED <<code, pc, variables, functions, out, mainCalls>>

\* call_function without its last line: the scope is left as the body left it.
RestoredScopeMissing(frame) == variables

\* self.variables = backup_vars
RestoredScope(frame) == frame.backup

\* process_lines(body_lines) has returned to call_function, which restores
\* the scope and returns to handle_function_call and to the calling
\* iteration of process_lines, which does i += 1.
Return ==
    /\ pc \in {"scan", "main"} /\ ~Looping
    /\ Depth > (IF pc = "main" THEN 2 ELSE 1)
    /\ variables' = RestoredScope(Top)
    /\ stack' = [SubSeq(stack, 1, Depth - 1) EXCEPT
                    ![Depth - 1] =
                        [Advance(stack[Depth - 1]) EXCEPT
                            !.calleeFault = @ \/ Top.broke]]
    /\ prev' = Snapshot("return")
    /\ UNCHANGED <<code, pc, functions, out, diag, mainCalls>>

(***************************************************************************)
(* The source lines the model's programs are made of.                      *)
(***************************************************************************)
\* (a blank line)
LBlank == <<>>

\* // c
LComment == <<"/", "/", " ", "c">>

\* var a = 2
LVarA2 == <<"v", "a", "r", " ", "a", " ", "=", " ", "2">>

\* var a = 1
LVarA1 == <<"v", "a", "r", " ", "a", " ", "=", " ", "1">>

\* var aa = 5
LVarAA5 == <<"v", "a", "r", " ", "a", "a", " ", "=", " ", "5">>

\* var x = 1
LVarX1 == <<"v", "a", "r", " ", "x", " ", "=", " ", "1">>

\* var b = a + 3
LVarBA3 == <<"v", "a", "r", " ", "b", " ", "=", " ", "a", " ", "+", " ", "3">>

\* var c = aa
LVarCAA == <<"v", "a", "r", " ", "c", " ", "=", " ", "a", "a">>

\* var a = a + 1
LVarAInc == <<"v", "a", "r", " ", "a", " ", "=", " ", "a", " ", "+", " ", "1">>

\* var a
LVarBad == <<"v", "a", "r", " ", "a">>

\* var z = y +
LVarZQ == <<"v", "a", "r", " ", "z", " ", "=", " ", "y", " ", "+">>

\*   log(b)
LLogB == <<" ", " ", "l", "o", "g", "(", "b", ")">>

\* log(c)
LLogC == <<"l", "o", "g", "(", "c", ")">>

\* log(a)
LLogA == <<"l", "o", "g", "(", "a", ")">>

\* log(y)
LLogY == <<"l", "o", "g", "(", "y", ")">>

\* log(x)
LLogX == <<"l", "o", "g", "(", "x", ")">>

\* log("{}")
LLogBraces == <<"l", "o", "g", "(", "\"", "{", "}", "\"", ")">>

\* log()
LLogEmpty == <<"l", "o", "g", "(", ")">>

\* func main() {
LFuncMain == <<"f", "u", "n", "c", " ", "m", "a", "i", "n", "(", ")", " ", "{">>

\* func main(p) {
LFuncMainP == <<"f", "u", "n", "c", " ", "m", "a", "i", "n", "(", "p", ")", " ", "{">>

\* func f(x, y) {
LFuncF == <<"f", "u", "n", "c", " ", "f", "(", "x", ",", " ", "y", ")", " ", "{">>

\* func g() {
LFuncG == <<"f", "u", "n", "c", " ", "g", "(", ")", " ", "{">>

\* func log(x) {
LFuncLog == <<"f", "u", "n", "c", " ", "l", "o", "g", "(", "x", ")", " ", "{">>

\* func h {
LFuncBad == <<"f", "u", "n", "c", " ", "h", " ", "{">>

\* }
LClose == <<"}">>

\* f(5, x)
LCallF5X == <<"f", "(", "5", ",", " ", "x", ")">>

\* f(z)
LCallFZ == <<"f", "(", "z", ")">>

\* foo()
LCallFoo == <<"f", "o", "o", "(", ")">>

\* g()
LCallG == <<"g", "(", ")">>

\* main()
LCallMain == <<"m", "a", "i", "n", "(", ")">>

\* a.b(2)
LCallBad == <<"a", ".", "b", "(", "2", ")">>

\* oops
LOops == <<"o", "o", "p", "s">>

\* f(z, 5)
LCallFZ5 == <<"f", "(", "z", ",", " ", "5", ")">>

\* log(z)
LLogZ == <<"l", "o", "g", "(", "z", ")">>

\* log("'hi'")
LLogDS == <<"l", "o", "g", "(", "\"", "'", "h", "i", "'", "\"", ")">>

\* log('"hi"')
LLogSD == <<"l", "o", "g", "(", "'", "\"", "h", "i", "\"", "'", ")">>

\* log(a
LLogOpen == <<"l", "o", "g", "(", "a">>

\* log(""hi"")
LLogDD == <<"l", "o", "g", "(", "\"", "\"", "h", "i", "\"", "\"", ")">>

(***************************************************************************)
(* execute(code): after process_lines(lines) has returned, main is called  *)
(* if it is registered.                                                    *)
(***************************************************************************)
\* The test for main made inside the scan instead of after it.
ScanEndedEarly == pc = "scan" /\ Depth = 1

\* execute going on only after a scan that reached the end of the lines: a
\* fault of process_lines ends the run.
ScanEndedUnbroken ==
    pc = "scan" /\ Depth = 1 /\ ~Top.broke /\ Top.i >= Len(Top.lines)

\* process_lines(lines) has returned to execute.
ScanEnded == pc = "scan" /\ Depth = 1 /\ ~Looping

HasMain == kwMain \in DOMAIN functions

Banner == [kind |-> "banner", text |-> <<>>]

\* The arguments execute passes to call_function for main
MainArgs == <<>>

\* "main" is not in self.functions: execute returns
NoMain ==
    /\ ScanEnded /\ ~HasMain
    /\ pc' = "done"
    /\ prev' = Snapshot("nomain")
    /\ UNCHANGED <<code, stack, variables, functions, out, diag, mainCalls>>

\* call_function("main", []) raises ValueError, which the except clause of
\* execute reports
MainArityFault ==
    /\ ScanEnded /\ HasMain /\ ArityMismatch(kwMain, MainArgs)
    /\ out' = Append(out, Banner)
    /\ diag' = Append(diag, Diag(-1, ExecuteContext, "ValueError", "execute", 0))
    /\ mainCalls' = mainCalls + 1
    /\ pc' = "done"
    /\ prev' = Snapshot("mainarity")
    /\ UNCHANGED <<code, stack, variables, functions>>

\* call_function("main", []), up to the call of process_lines for the body
MainEnter ==
    /\ ScanEnded /\ HasMain /\ ~ArityMismatch(kwMain, MainArgs)
    /\ out' = Append(out, Banner)
    /\ variables' = CallBinding(kwMain, MainArgs).scope
    /\ diag' = diag \o CallBinding(kwMain, MainArgs).diags
    /\ stack' = Append(stack, CallActivation(kwMain, MainArgs))
    /\ mainCalls' = mainCalls + 1
    /\ pc' = "main"
    /\ prev' = Snapshot("mainenter")
    /\ UNCHANGED <<code, functions>>

\* main's body has been processed: call_function restores the scope and
\* execute returns
MainReturn ==
    /\ pc = "main" /\ Depth = 2 /\ ~Looping
    /\ variables' = RestoredScope(Top)
    /\ stack' = SubSeq(stack, 1, 1)
    /\ pc' = "done"
    /\ prev' = Snapshot("mainreturn")
    /\ UNCHANGED <<code, functions, out, diag, mainCalls>>

(***************************************************************************)
(* The programs.  A program is a prelude of top-level lines, the           *)
(* definition of f(x, y), the definition of main and a tail of top-level   *)
(* lines; the bodies are all the sequences of at most MaxBody statements.  *)
(* OtherPrograms adds programs for single cases: faults at top level,      *)
(* malformed and quoted log statements, a function named log, an argument  *)
(* that fails to evaluate, a definition with no closing brace.             *)
(***************************************************************************)
SeqsUpTo(S, n) == UNION {[1..k -> S] : k \in 0..n}

Preludes == {<<>>, <<LVarA2>>, <<LVarX1, LComment>>, <<LVarA1, LVarAA5>>}

MainStmts == {LVarBA3, LLogB, LCallF5X, LCallFZ, LCallFoo, LOops, LFuncG,
              LClose, LCallG, LLogBraces, LCallMain, LVarCAA}

FStmts == {LLogY, LLogX, LVarAInc, LVarZQ, LOops, LCallG, LBlank}

Define(header, body) == <<header>> \o body \o <<LClose>>

MainPrograms ==
    {pre \o Define(LFuncF, <<LLogY>>) \o Define(LFuncMain, mb) :
        pre \in Preludes, mb \in SeqsUpTo(MainStmts, MaxBody)}

CalleePrograms ==
    {<<LVarX1>> \o Define(LFuncF, fb)
         \o Define(LFuncMain, <<LVarA2, LCallF5X, LLogX, LLogA>>) :
        fb \in SeqsUpTo(FStmts, MaxBody)}

OtherPrograms ==
    {<<LVarA2>> \o Define(LFuncMain, <<LVarBA3, LLogB>>),
     <<LVarA2>> \o Define(LFuncMainP, <<LLogA>>) \o <<LLogA>>,
     Define(LFuncG, <<LLogEmpty, LLogA>>) \o <<LVarA1, LCallG, LLogA>>,
     Define(LFuncMain, <<LLogA>>) \o <<LVarBad, LVarA1, LFuncG, LClose>>,
     Define(LFuncMain, <<LCallBad, LLogA>>) \o <<LFuncBad, LVarA1>>,
     <<LVarA1, LCallBad, LVarA2>>,
     <<LVarX1, LFuncF, LLogBraces, LFuncG, LClose, LLogY, LClose,
       LCallF5X, LCallG, LFuncMain>>,
     Define(LFuncF, <<LLogX, LLogY>>)
         \o Define(LFuncMain, <<LCallFZ5, LVarZQ, LLogZ>>),
     <<LVarA1, LLogDS, LLogSD, LLogDD, LLogA>>,
     <<LVarA1, LLogOpen, LLogEmpty, LLogA>>,
     <<LVarA1>> \o Define(LFuncLog, <<LLogX>>) \o <<LLogA, LOops>>}

Programs == MainPrograms \cup CalleePrograms \cup OtherPrograms

Init ==
    /\ code \in Programs
    /\ pc = "scan"
    /\ stack = <<Activation(code, <<>>, <<>>, <<>>, <<>>, <<>>, 0)>>
    /\ variables = <<>>
    /\ functions = <<>>
    /\ out = <<>>
    /\ diag = <<>>
    /\ mainCalls = 0
    /\ prev = [op |-> "init", pc |-> "scan", stack |-> <<>>,
               variables |-> <<>>, functions |-> <<>>, out |-> <<>>,
               diag |-> <<>>]

Next ==
    \/ SkipLine
    \/ VarDeclaration
    \/ VarDeclarationFault
    \/ FunctionDefinition
    \/ FunctionDefinitionFault
    \/ Log
    \/ LogMalformed
    \/ CallSyntaxFault
    \/ CallUnknown
    \/ CallArityFault
    \/ CallEnter
    \/ UnknownStatement
    \/ Return
    \/ NoMain
    \/ MainArityFault
    \/ MainEnter
    \/ MainReturn

Spec == Init /\ [][Next]_vars

(***************************************************************************)
(* Properties.  prev holds the step that led to the current state, so a    *)
(* property of a step is a predicate on prev and the current state.        *)
(***************************************************************************)
\* The activation that was running before the last step
PrevTop == prev.stack[Len(prev.stack)]

NameSet(scope) == {scope[k].name : k \in 1..Len(scope)}

Range(seq) == {seq[k] : k \in 1..Len(seq)}

Returned == prev.op \in {"return", "mainreturn"}

Entered == prev.op \in {"call", "mainenter"}

\* C1: when call_function returns, after a body that ran to its end or that
\* faulted part-way, the scope is, item for item, the scope call_function
\* found when it was called.
C1_ScopeRestoredAfterCall == Returned => variables = PrevTop.entry

\* A call with parameters has returned, from a body that faulted, and the
\* scope the body left differed from the caller's.
C1_Witness ==
    /\ prev.op = "return"
    /\ PrevTop.params # <<>>
    /\ PrevTop.broke
    /\ prev.variables # PrevTop.entry
    /\ variables = PrevTop.entry

\* C2 as claimed: when the body of a called function starts, the bound
\* identifiers are exactly the function's parameters.
C2_OnlyParametersBound == Entered => NameSet(variables) = Range(Top.params)

\* C2 as amended: when the body of a called function starts, the scope is
\* the caller's scope with the parameters stored into it: the bound
\* identifiers are the caller's and the parameters, and every caller variable
\* that is no parameter keeps its place and value.
C2_CallerScopeKept ==
    Entered =>
        /\ NameSet(variables) = NameSet(Top.entry) \cup Range(Top.params)
        /\ \A k \in 1..Len(Top.entry) :
              Top.entry[k].name \notin Range(Top.params)
                  => variables[k] = Top.entry[k]

\* A function with parameters starts in a scope that also holds a caller's
\* variable.
C2_Witness ==
    /\ prev.op = "call"
    /\ Top.params # <<>>
    /\ NameSet(Top.entry) \ Range(Top.params) # {}
    /\ NameSet(Top.entry) \subseteq NameSet(variables)

\* C3 as claimed: in a call with two or more arguments every parameter is
\* bound to the value of its argument in the caller's scope as it was before
\* the call.
C3_ArgumentsInCallerScope ==
    (prev.op = "call" /\ Len(Top.args) >= 2) =>
        \A k \in 1..Len(Top.args) :
            GetVar(variables, Top.params[k])
                = EvaluateExpression(Top.args[k], Top.entry, 0).val

\* The activations whose loop has been left by the break
Faulted(frame) == frame.broke \/ frame.reports > 0 \/ frame.faultAt >= 0

LineSteps == {"skip", "var", "func", "log", "logbad", "call", "fault", "arity"}

\* C4: once a line of an activation of process_lines has raised, that
\* activation has made exactly one report, for that line, it stays at that
\* line, and no step processes a line of it any more.
C4_AbortAfterFault ==
    /\ \A k \in 1..Depth :
          Faulted(stack[k]) =>
              /\ stack[k].broke
              /\ stack[k].reports = 1
              /\ stack[k].i = stack[k].faultAt
    /\ prev.op \in LineSteps => ~Faulted(PrevTop)
    /\ prev.op \in {"fault", "arity"} =>
          /\ Len(diag) >= 1
          /\ diag[Len(diag)].by = "dispatcher"
          /\ diag[Len(diag)].ln = Top.faultAt
          /\ Top.faultAt = PrevTop.i

\* The activation of a function body has just faulted on a line that is not
\* its last one.
C4_Witness ==
    /\ prev.op \in {"fault", "arity"}
    /\ Depth >= 2
    /\ Top.broke
    /\ Top.reports = 1
    /\ Top.i + 1 < Len(Top.lines)

\* C5 as claimed: after a fault in a called body, the calling activation
\* aborts too, so no statement after the call line is processed.
C5_FaultPropagates ==
    \A k \in 1..Depth : stack[k].calleeFault => stack[k].broke

\* C6: a call with a wrong number of arguments fails with ValueError: no
\* activation is ever started for such a call, and the failing step makes
\* one diagnostic only (no argument is evaluated: the evaluator reports
\* nothing) and leaves the scope, the functions and the activations as they
\* were.
C6_ArityMismatchFails ==
    /\ \A k \in 2..Depth : Len(stack[k].args) = Len(stack[k].params)
    /\ prev.op \in {"arity", "mainarity"} =>
          /\ variables = prev.variables
          /\ functions = prev.functions
          /\ Depth = Len(prev.stack)
          /\ Len(diag) = Len(prev.diag) + 1
          /\ diag[Len(diag)].kind = "ValueError"
          /\ SubSeq(diag, 1, Len(prev.diag)) = prev.diag

\* A call with one argument of a function with two parameters has failed;
\* the argument is one the evaluator would have reported.
C6_Witness ==
    /\ prev.op = "arity"
    /\ prev.variables # <<>>
    /\ LET m == MatchCall(Strip(PrevTop.lines[PrevTop.i + 1]))
       IN  /\ Len(SplitArgs(m.rest)) = 1
           /\ Len(functions[m.name].params) = 2
           /\ ~EvaluateExpression(SplitArgs(m.rest)[1], variables, 0).diags = <<>>

\* The brace counter after the line at index j (0-based) of a definition
\* whose header is at index s: 1, plus the lines in s+1..j that hold an
\* opening brace, minus those that hold a closing brace.
BraceLevel(lines, s, j) ==
    1 + Cardinality({m \in (s + 1)..j : Contains(Strip(lines[m + 1]), "{")})
      - Cardinality({m \in (s + 1)..j : Contains(Strip(lines[m + 1]), "}")})

\* The indexes at which the counter is 0
ClosingLines(lines, s) ==
    {j \in (s + 1)..(Len(lines) - 1) : BraceLevel(lines, s, j) = 0}

\* C7: after a function definition whose braces balance, the registered body
\* is the lines strictly between the header and the first line at which the
\* brace counter is 0, and the scan goes on one line after that line.
C7_BodyExtraction ==
    (prev.op = "func" /\ ClosingLines(PrevTop.lines, PrevTop.i) # {}) =>
        LET lines == PrevTop.lines
            s     == PrevTop.i
            t     == SetMin(ClosingLines(lines, s))
            name  == MatchFunc(Strip(lines[s + 1])).name
        IN  /\ name \in DOMAIN functions
            /\ functions[name].body =
                   [k \in 1..(t - s - 1) |-> Strip(lines[s + 1 + k])]
            /\ Top.i = t + 1

\* A definition has been read whose body holds a line with both braces and a
\* nested definition.
C7_Witness ==
    /\ prev.op = "func"
    /\ ClosingLines(PrevTop.lines, PrevTop.i) # {}
    /\ LET name == MatchFunc(Strip(PrevTop.lines[PrevTop.i + 1])).name
           body == functions[name].body
       IN  /\ \E k \in 1..Len(body) :
                  Contains(body[k], "{") /\ Contains(body[k], "}")
           /\ \E k \in 1..Len(body) :
                  Contains(body[k], "{") /\ ~Contains(body[k], "}")
           /\ Top.i = PrevTop.i + Len(body) + 2

\* C8: execute calls main at most once, with no argument, only when the
\* top-level scan has ended, and exactly when main is registered then; when
\* it is not, execute ends and prints nothing for it.
C8_MainInvokedOnce ==
    /\ mainCalls <= 1
    /\ mainCalls = 1 => pc # "scan"
    /\ prev.op \in {"mainenter", "mainarity", "nomain"} =>
          /\ prev.pc = "scan"
          /\ Len(prev.stack) = 1
          /\ (PrevTop.broke \/ PrevTop.i >= Len(PrevTop.lines))
    /\ prev.op = "mainenter" => (Top.fname = kwMain /\ Top.args = <<>>)
    /\ prev.op = "nomain" => (diag = prev.diag /\ out = prev.out)
    /\ pc = "done" => (mainCalls = 1 <=> kwMain \in DOMAIN functions)

\* execute has ended after it called main.
C8_Witness ==
    /\ pc = "done"
    /\ mainCalls = 1
    /\ prev.op = "mainreturn"
    /\ out # <<>>

\* var a = 2 / func main() { / var b = a + 3 / log(b) / }
ScenarioProgram == <<LVarA2, LFuncMain, LVarBA3, LLogB, LClose>>

\* What the log statements printed
Logged == SelectSeq(out, LAMBDA e : e.kind # "banner")

\* C9: the scenario program logs 5 and nothing else.
C9_ScenarioLogsFive ==
    (code = ScenarioProgram /\ pc = "done") =>
        Logged = <<[kind |-> "log", text |-> <<"5">>]>>

\* The scenario program has run to its end.
C9_Witness ==
    /\ code = ScenarioProgram
    /\ pc = "done"
    /\ mainCalls = 1
    /\ Len(out) = 2

(***************************************************************************)
(* The value of an expression under a scope, computed on the expression's  *)
(* tokens: a name that is bound stands for its variable's value.  This is  *)
(* what C10 calls the value of the expression evaluated with the values of *)
(* the variables; evaluate_expression works on the text instead.           *)
(***************************************************************************)
ValueToken(v) ==
    CASE v.t = "int" -> Tok("num", v.n, <<>>)
      [] v.t = "str" -> Tok("str", 0, v.s)
      [] OTHER -> Tok("name", 0, <<"N", "o", "n", "e">>)

Resolve(toks, scope) ==
    [k \in 1..Len(toks) |->
        IF toks[k].k = "name" /\ HasVar(scope, toks[k].s)
        THEN ValueToken(GetVar(scope, toks[k].s))
        ELSE toks[k]]

ValueOf(expr, scope) ==
    LET toks == Tokens(expr)
    IN  IF SyntaxOK(toks)
        THEN Run(Resolve(toks, scope), NoneVal, FALSE, TRUE, FALSE)
        ELSE EvalErr("SyntaxError")

\* The positions at which name occurs in text
Occurrences(text, name) ==
    {p \in 1..(Len(text) - Len(name) + 1) :
        SubSeq(text, p, p + Len(name) - 1) = name}

\* Every occurrence of name in expr is a whole identifier: no \w character
\* before or after it, and none inside a string literal.
WholeIdentifier(expr, name) ==
    /\ \A p \in Occurrences(expr, name) :
          /\ p = 1 \/ ~IsWord(expr[p - 1])
          /\ p + Len(name) > Len(expr) \/ ~IsWord(expr[p + Len(name)])
    /\ \A k \in 1..Len(Tokens(expr)) :
          Tokens(expr)[k].k = "str"
              => Occurrences(Tokens(expr)[k].s, name) = {}

\* The scope holds integers only, under names that start with a letter, and
\* the expression uses these names as whole identifiers only.
SubstitutionSafe(expr, scope) ==
    \A k \in 1..Len(scope) :
        /\ scope[k].val.t = "int"
        /\ scope[k].name[1] \in Letters
        /\ WholeIdentifier(expr, scope[k].name)

\* The declaration the last step processed
DeclaredName == MatchVar(Strip(PrevTop.lines[PrevTop.i + 1])).name

DeclaredExpr == MatchVar(Strip(PrevTop.lines[PrevTop.i + 1])).rest

\* The last step was a declaration whose evaluation reported no failure
Declared == prev.op = "var" /\ diag = prev.diag

\* The scope after the declaration binds the name once, to val, and every
\* other item is where and what it was.
BoundTo(val) ==
    /\ Cardinality({k \in 1..Len(variables) :
                       variables[k].name = DeclaredName}) = 1
    /\ GetVar(variables, DeclaredName) = val
    /\ Len(variables) = Len(prev.variables)
           + (IF HasVar(prev.variables, DeclaredName) THEN 0 ELSE 1)
    /\ \A k \in 1..Len(prev.variables) :
          prev.variables[k].name # DeclaredName
              => variables[k] = prev.variables[k]

\* C10 as claimed: after a declaration whose expression evaluates, the name
\* is bound to the value of the expression under the variables bound before,
\* a prior binding is overwritten and every other binding is unchanged.
C10_DeclarationBindsValue ==
    Declared =>
        /\ ValueOf(DeclaredExpr, prev.variables).ok
        /\ BoundTo(ValueOf(DeclaredExpr, prev.variables).val)

\* C10 as amended: the same, for a scope of integers under names that start
\* with a letter and an expression in which each bound name occurs as a whole
\* identifier only.
C10_DeclarationBindsValueSafe ==
    (Declared /\ SubstitutionSafe(DeclaredExpr, prev.variables)) =>
        /\ ValueOf(DeclaredExpr, prev.variables).ok
        /\ BoundTo(ValueOf(DeclaredExpr, prev.variables).val)

\* A declaration has overwritten a variable with a value computed from it,
\* in a scope that holds other variables.
C10_Witness ==
    /\ Declared
    /\ SubstitutionSafe(DeclaredExpr, prev.variables)
    /\ HasVar(prev.variables, DeclaredName)
    /\ Occurrences(DeclaredExpr, DeclaredName) # {}
    /\ Len(prev.variables) >= 2
    /\ GetVar(variables, DeclaredName) # GetVar(prev.variables, DeclaredName)

\* The last step processed a declaration whose expression failed to evaluate
DeclarationFailed ==
    /\ prev.op \in {"var", "fault"}
    /\ IsVar(Strip(PrevTop.lines[PrevTop.i + 1]))
    /\ MatchVar(Strip(PrevTop.lines[PrevTop.i + 1])).ok
    /\ ~PyEval(Substitute(DeclaredExpr, prev.variables)).ok

\* The last step started a call one of whose arguments failed to evaluate
ArgumentFailed == prev.op \in {"call", "mainenter"} /\ diag # prev.diag

\* C11 as claimed: a declaration whose expression fails to evaluate aborts
\* the running sequence and binds nothing; a call argument that fails to
\* evaluate is reported by the evaluator, binds its parameter to None and
\* the body is started all the same.
C11_DeclarationFailureAborts ==
    /\ DeclarationFailed => (Top.broke /\ variables = prev.variables)
    /\ ArgumentFailed =>
          /\ Depth = Len(prev.stack) + 1
          /\ ~Top.broke
          /\ \A k \in (Len(prev.diag) + 1)..Len(diag) :
                diag[k].by = "evaluator"
          /\ \E k \in 1..Len(Top.params) :
                GetVar(variables, Top.params[k]) = NoneVal

Quotes == {"\"", "'"}

\* A text with one layer of surrounding quotes removed
Dequote(s) ==
    IF Len(s) >= 2 /\ s[1] \in Quotes /\ s[Len(s)] = s[1]
    THEN SubSeq(s, 2, Len(s) - 1)
    ELSE s

\* The trimmed content of the log line the last step processed
LoggedContent == Strip(MatchLog(Strip(PrevTop.lines[PrevTop.i + 1])).rest)

\* C12 as claimed: a log statement prints one text, the value of the
\* variable its content names or else the content with one layer of
\* surrounding quotes removed, and leaves the scope and the functions as
\* they were.
C12_LogPrintsDequoted ==
    prev.op = "log" =>
        /\ out = Append(prev.out,
                        [kind |-> "log",
                         text |-> IF HasVar(prev.variables, LoggedContent)
                                  THEN Str(GetVar(prev.variables, LoggedContent))
                                  ELSE Dequote(LoggedContent)])
        /\ variables = prev.variables
        /\ functions = prev.functions

\* The line the last step processed
PrevLine == Strip(PrevTop.lines[PrevTop.i + 1])

\* The last step processed a line that begins with log( and does not match
\* the pattern of the log statement
MalformedLogStep ==
    /\ prev.op \in LineSteps
    /\ StartsWith(PrevLine, kwLog)
    /\ ~MatchLog(PrevLine).ok

\* C13: a line that begins with log( and does not match the log pattern
\* prints the grammar message for that line and nothing else, makes no
\* diagnostic, changes neither scope nor functions, and its activation goes
\* on with the next line.
C13_MalformedLogContinues ==
    MalformedLogStep =>
        /\ out = Append(prev.out, [kind |-> "grammar", text |-> PrevLine])
        /\ diag = prev.diag
        /\ variables = prev.variables
        /\ functions = prev.functions
        /\ Depth = Len(prev.stack)
        /\ ~Top.broke
        /\ Top.reports = 0
        /\ Top.i = PrevTop.i + 1

\* After log( without its closing parenthesis and log(), the line that
\* follows them has been processed and has printed a value.
C13_Witness ==
    /\ prev.op = "log"
    /\ Len(out) = 3
    /\ out[1] = [kind |-> "grammar", text |-> LLogOpen]
    /\ out[2] = [kind |-> "grammar", text |-> LLogEmpty]
    /\ out[3].kind = "log"
    /\ diag = <<>>

\* A line that calls a function the table does not hold
IsUnknownCall(line, table) ==
    IsCall(line) /\ MatchCall(line).ok /\ MatchCall(line).name \notin DOMAIN table

\* The last step processed, in the body of main, a call of a function that
\* is not registered
UnknownCallInMain ==
    /\ prev.op \in LineSteps
    /\ prev.pc = "main"
    /\ Len(prev.stack) = 2
    /\ IsUnknownCall(PrevLine, prev.functions)

\* execute has returned after the body of main stopped at such a call
MainEndedAtUnknownCall ==
    /\ pc = "done"
    /\ prev.op = "mainreturn"
    /\ PrevTop.faultAt >= 0
    /\ IsUnknownCall(Strip(PrevTop.lines[PrevTop.faultAt + 1]), functions)

\* C14: a call, in the body of main, of a function that is not registered
\* makes one diagnostic, a NameError for that line printed by the dispatcher,
\* and stops the body; call_function and execute then return: nothing more
\* is printed for the fault, the except clause of execute reports nothing,
\* and the run ends.
C14_UnknownCallInMain ==
    /\ UnknownCallInMain =>
          /\ Len(diag) = Len(prev.diag) + 1
          /\ SubSeq(diag, 1, Len(prev.diag)) = prev.diag
          /\ diag[Len(diag)].kind = "NameError"
          /\ diag[Len(diag)].by = "dispatcher"
          /\ diag[Len(diag)].text = PrevLine
          /\ out = prev.out
          /\ Depth = 2 /\ Top.broke /\ Top.reports = 1
          /\ ENABLED MainReturn
    /\ MainEndedAtUnknownCall =>
          /\ diag = prev.diag
          /\ out = prev.out
          /\ PrevTop.reports = 1
          /\ diag[Len(diag)].kind = "NameError"
          /\ diag[Len(diag)].text = Strip(PrevTop.lines[PrevTop.faultAt + 1])
          /\ \A k \in 1..Len(diag) : diag[k].by # "execute"

\* The run has ended after main called foo(): the diagnostic for it is the
\* only one of the run.
C14_Witness ==
    /\ MainEndedAtUnknownCall
    /\ Strip(PrevTop.lines[PrevTop.faultAt + 1]) = LCallFoo
    /\ Len(diag) = 1
    /\ diag[1].kind = "NameError"

\* The index in code (0-based) of the line the last step processed
PrevSourceIndex == PrevTop.base + PrevTop.i

\* C15 as claimed: the diagnostic the dispatcher prints for a faulting line
\* carries the number (1-based) of that line in the program source, for a
\* line of a function body as for a top-level line.
C15_SourceLineReported ==
    prev.op \in {"fault", "arity"} =>
        /\ Strip(code[PrevSourceIndex + 1]) = PrevLine
        /\ diag[Len(diag)].text = PrevLine
        /\ diag[Len(diag)].ln + 1 = PrevSourceIndex + 1

\* The first rule of the dispatcher that a line matches, in the order of the
\* claim
Rule(line) ==
    CASE line = <<>> \/ StartsWith(line, kwComment) -> "skip"
      [] OTHER ->
         IF StartsWith(line, kwVar \o <<" ">>) THEN "var"
         ELSE IF StartsWith(line, kwFunc \o <<" ">>) THEN "func"
         ELSE IF StartsWith(line, kwLog) THEN "log"
         ELSE IF IsCallPattern(line) THEN "call"
         ELSE "none"

\* The rules a line matches when each is tested alone
Matching(line) ==
    {r \in {"skip", "var", "func", "log", "call"} :
        \/ r = "skip" /\ (line = <<>> \/ StartsWith(line, kwComment))
        \/ r = "var" /\ StartsWith(line, kwVar \o <<" ">>)
        \/ r = "func" /\ StartsWith(line, kwFunc \o <<" ">>)
        \/ r = "log" /\ StartsWith(line, kwLog)
        \/ r = "call" /\ IsCallPattern(line)}

\* C16: the step that processes a line is the step of the handler of the
\* first rule the line matches, and of that handler only: a skipped line
\* changes nothing; a declaration binds or is reported by the declaration
\* handler; a definition registers or fails; a line that begins with log(
\* prints one text and starts no call, whatever the function table holds; a
\* call starts an activation or fails; a line that matches no rule makes one
\* SyntaxError diagnostic that carries the line, and stops the activation.
C16_FirstMatchingRule ==
    prev.op \in LineSteps =>
        LET r == Rule(PrevLine)
        IN  /\ r = "skip" =>
                  /\ prev.op = "skip"
                  /\ out = prev.out /\ diag = prev.diag
                  /\ variables = prev.variables /\ functions = prev.functions
            /\ r = "var" =>
                  \/ prev.op = "var" /\ HasVar(variables, DeclaredName)
                  \/ /\ prev.op = "fault"
                     /\ diag[Len(prev.diag) + 1].by = "declaration"
            /\ r = "func" =>
                  \/ /\ prev.op = "func"
                     /\ MatchFunc(PrevLine).name \in DOMAIN functions
                  \/ /\ prev.op = "fault"
                     /\ Len(diag) = Len(prev.diag) + 1
                     /\ diag[Len(diag)].kind = "SyntaxError"
            /\ r = "log" =>
                  /\ prev.op \in {"log", "logbad"}
                  /\ Len(out) = Len(prev.out) + 1
                  /\ Depth = Len(prev.stack)
                  /\ diag = prev.diag
                  /\ variables = prev.variables
            /\ r = "call" =>
                  /\ prev.op \in {"call", "arity", "fault"}
                  /\ out = prev.out
                  /\ prev.op = "call" => Depth = Len(prev.stack) + 1
                  /\ prev.op # "call" =>
                        /\ Len(diag) = Len(prev.diag) + 1
                        /\ diag[Len(diag)].by = "dispatcher"
            /\ r = "none" =>
                  /\ prev.op = "fault"
                  /\ diag = Append(prev.diag,
                                   Diag(PrevTop.i, PrevLine, "SyntaxError",
                                        "dispatcher", Len(prev.stack)))
                  /\ Top.broke
                  /\ out = prev.out

\* A line that begins with log( and also matches the call pattern has been
\* processed while a function named log is registered: it printed the value
\* of its variable and no activation was started.
C16_Witness ==
    /\ prev.op = "log"
    /\ <<"l", "o", "g">> \in DOMAIN prev.functions
    /\ Matching(PrevLine) = {"log", "call"}
    /\ Depth = Len(prev.stack)
    /\ out = Append(prev.out, [kind |-> "log", text |-> <<"1">>])

\* C17 as claimed: once the top-level scan has ended, no step changes the
\* set of registered function names.
C17_TableFixedAfterScan ==
    (prev.op # "init" /\ prev.pc # "scan") =>
        DOMAIN functions = DOMAIN prev.functions

\* C17 as amended: no step removes a function; the table changes only when
\* the dispatcher processes a definition, at top level or in a body that is
\* being executed, during the scan or after it, and then the name defined is
\* the only one that can be new and every other entry is what it was.
C17_TableOnlyGrows ==
    prev.op # "init" =>
        /\ DOMAIN prev.functions \subseteq DOMAIN functions
        /\ prev.op # "func" => functions = prev.functions
        /\ prev.op = "func" =>
              /\ DOMAIN functions =
                     DOMAIN prev.functions \cup {MatchFunc(PrevLine).name}
              /\ \A f \in DOMAIN prev.functions :
                    f # MatchFunc(PrevLine).name
                        => functions[f] = prev.functions[f]

\* A definition in the body of main has registered a new function after the
\* top-level scan ended, and the functions registered by the scan are kept.
C17_Witness ==
    /\ prev.op = "func"
    /\ prev.pc = "main"
    /\ Len(prev.stack) >= 2
    /\ MatchFunc(PrevLine).name \notin DOMAIN prev.functions
    /\ kwMain \in DOMAIN functions
    /\ Cardinality(DOMAIN functions) >= 3

\* The top-level scan was aborted by a fault on one of its lines
ScanAborted == stack[1].broke

\* The names declared by the top-level lines before index k (0-based)
DeclaredBefore(k) ==
    {MatchVar(Strip(code[j + 1])).name :
        j \in {n \in 0..(k - 1) : /\ IsVar(Strip(code[n + 1]))
                                  /\ MatchVar(Strip(code[n + 1])).ok}}

\* The program that faults on its fourth line, after the definition of main
\* and before a declaration and a definition:
\* func main() { / log(a) / } / var a / var a = 1 / func g() { / }
FaultAfterMainProgram ==
    Define(LFuncMain, <<LLogA>>) \o <<LVarBad, LVarA1, LFuncG, LClose>>

Running == {stack[k].fname : k \in 2..Depth}

\* A function is calling itself, directly or through others: its body is
\* being executed and the running line calls it.
RecursionSeen ==
    /\ Looping
    /\ IsCall(CurLine) /\ MatchCall(CurLine).ok
    /\ MatchCall(CurLine).name \in Running

\* No function is running twice
NoRecursion ==
    \A j, k \in 2..Depth : j # k => stack[j].fname # stack[k].fname

\* The index of the running activation after a step of its loop: greater
\* than before; after a definition it is past the lines the body scan read,
\* and past the end when no closing brace was found.
IndexIncreases ==
    /\ prev.op \in {"skip", "var", "func", "log", "logbad"} =>
          /\ Depth = Len(prev.stack)
          /\ Top.i > PrevTop.i
          /\ Top.i <= Len(Top.lines) + 1
    /\ prev.op = "func" =>
          /\ Top.i >= PrevTop.i + 2
          /\ ClosingLines(PrevTop.lines, PrevTop.i) = {}
                => Top.i = Len(Top.lines) + 1
    /\ prev.op \in {"fault", "arity"} => (Top.broke /\ ~Looping)
    /\ prev.op = "call" =>
          /\ Top.i = 0
          /\ Top.lines = functions[Top.fname].body
    /\ prev.op = "return" =>
          /\ Depth = Len(prev.stack) - 1
          /\ Top.i = prev.stack[Depth].i + 1

\* The iterations an activation's loop can still make
Remaining(frame) ==
    IF frame.broke \/ frame.i >= Len(frame.lines) THEN 0
    ELSE Len(frame.lines) - frame.i

\* What is left of a run: how far execute is, then for each activation, the
\* oldest first, twice its remaining iterations, plus one for the running
\* activation (a calling activation is inside an iteration).
Variant(where, frames) ==
    <<CASE where = "scan" -> 2 [] where = "main" -> 1 [] OTHER -> 0>>
        \o [k \in 1..Len(frames) |->
               2 * Remaining(frames[k]) + (IF k = Len(frames) THEN 1 ELSE 0)]

\* The lexicographic order
LexLess(a, b) ==
    \E k \in 1..Len(a) :
        /\ k <= Len(b)
        /\ SubSeq(a, 1, k - 1) = SubSeq(b, 1, k - 1)
        /\ a[k] < b[k]

\* A step can be taken: the loop of the running activation has a line to
\* process, and one of the handlers applies to it (a call of a registered
\* function with the right number of arguments starts an activation while
\* there are fewer than MaxDepth); or the loop has ended and process_lines
\* returns, to call_function or to execute.
StepEnabled ==
    \/ /\ Looping
       /\ \/ IsSkip(CurLine) \/ IsVar(CurLine) \/ IsFunc(CurLine)
          \/ IsLog(CurLine) \/ IsUnknown(CurLine)
          \/ /\ IsCall(CurLine)
             /\ \/ ~MatchCall(CurLine).ok
                \/ MatchCall(CurLine).name \notin DOMAIN functions
                \/ ArityMismatch(MatchCall(CurLine).name,
                                 SplitArgs(MatchCall(CurLine).rest))
                \/ Depth < MaxDepth
    \/ pc \in {"scan", "main"} /\ ~Looping

\* C19: every step of an activation's loop increases its index or leaves
\* the loop; every step of a run makes the variant smaller, and while no
\* function is running twice there are at most as many activations as
\* registered functions, plus one, so a run without recursion cannot go on
\* for ever; and it cannot stop before execute returns: while no function is
\* running twice and the running line calls no running function, either
\* execute has returned or a step can be taken.
C19_Terminates ==
    /\ IndexIncreases
    /\ prev.op # "init" =>
          LexLess(Variant(pc, stack), Variant(prev.pc, prev.stack))
    /\ NoRecursion => Depth <= 1 + Cardinality(DOMAIN functions)
    /\ (NoRecursion /\ ~RecursionSeen) => (pc = "done" \/ StepEnabled)

\* execute has returned for the program whose last line is the header of
\* main, with no closing brace: the scan went past the end of the lines,
\* after calls of f and g had returned, and main was called.
C19_Witness ==
    /\ pc = "done"
    /\ code[Len(code)] = LFuncMain
    /\ stack[1].i = Len(code) + 1
    /\ ~stack[1].broke
    /\ mainCalls = 1
    /\ Len(Logged) >= 2

=============================================================================
